---- MODULE Spec2Model ----
(***************************************************************************)
(* A model of two components of the bloop client:                          *)
(*                                                                         *)
(*   Conversation  (Chat/Conversation component, src/unnamed/part_000):    *)
(*     the scroll-follow state machine (handleScroll, scrollToBottom, the  *)
(*     follow useEffect) and the per-turn projection of props              *)
(*     (showInlineFeedback, queryId).                                      *)
(*                                                                         *)
(*   CodeRenderer  (MarkdownWithCode/CodeRenderer.tsx): the class-string   *)
(*     decoding (matchLang, matchType, matchPath, matchLines, lines,       *)
(*     linesToUse), the colour preview, the render dispatch and the        *)
(*     FileChip click handler.                                             *)
(*                                                                         *)
(* Strings that the code inspects character by character (class strings,   *)
(* the text of a child) are sequences of one-character strings.            *)
(***************************************************************************)
EXTENDS Integers, Sequences, FiniteSets

VARIABLES
    \* ---- Conversation ----
    conversation,     \* props.conversation: the transcript, a sequence of turns
    isLoading,        \* props.isLoading
    attached,         \* messagesRef.current is the container (not null)
    userScrolledUp,   \* useState(false)
    scrollTop,        \* messagesRef.current.scrollTop
    scrollHeight,     \* messagesRef.current.scrollHeight
    anim,             \* the smooth scroll in progress: <<>> or <<target offset>>
    rendered,         \* the props handed to each <Message> by the last render
    lastAct,          \* the handler that ran last
    effectCalled,     \* the follow effect called scrollToBottom in the last step
    userLeft,         \* the user has scrolled the container away from the bottom
    \* ---- CodeRenderer ----
    className,        \* props.className ('' when absent)
    children,         \* props.children: a sequence of nodes
    inline,           \* props.inline
    hideCode,         \* props.hideCode
    element,          \* what the last render returned (NotRendered before it)
    scrollToIndex     \* the strings updateScrollToIndex was called with

convVars == <<conversation, isLoading, attached, userScrolledUp, scrollTop,
              scrollHeight, anim, rendered, lastAct, effectCalled, userLeft>>

decVars == <<className, children, inline, hideCode, element, scrollToIndex>>

vars == <<convVars, decVars>>

----------------------------------------------------------------------------
(* Bounds of the model *)

\* The visible height of the container (clientHeight), in layout units.
ClientHeight == 2

\* The largest scrollHeight the content grows to.
MaxScrollHeight == 5

\* The most one transcript change adds to scrollHeight.
MaxGrow == 2

\* The longest transcript.
MaxTurns == 2

----------------------------------------------------------------------------
(* JavaScript values *)

\* The value of a property that an object does not have.
Undefined == "undefined"

\* m.f : Undefined when the object has no such property.
Get(m, f) == IF f \in DOMAIN m THEN m[f] ELSE Undefined

\* Truthiness of a string-or-undefined value (the left operand of ||).
Truthy(v) == v # Undefined /\ v # ""

----------------------------------------------------------------------------
(* The transcript *)

\* Query identifiers of Server turns (UUIDs).
QueryIds == {"q1", "q2"}

\* The literal the queryId prop falls back to.
NilQueryId == "00000000-0000-0000-0000-000000000000"

UserTurns == {[author |-> "User"]}

ServerTurns ==
    [author : {"Server"}, isLoading : BOOLEAN, isFromHistory : BOOLEAN,
     queryId : QueryIds]

Turns == UserTurns \cup ServerTurns

\* showInlineFeedback of the turn at index i (1-based here, 0-based in the code).
ShowInlineFeedbackMutNoLast(conv, loading, i) ==
    LET m == conv[i] IN
    /\ m.author = "Server"
    /\ ~Get(m, "isLoading")
    /\ ~loading
    /\ ~Get(m, "isFromHistory")

ShowInlineFeedback(conv, loading, i) ==
    LET m == conv[i] IN
    /\ m.author = "Server"
    /\ ~Get(m, "isLoading")
    /\ ~loading
    /\ i = Len(conv)
    /\ ~Get(m, "isFromHistory")

\* conversation[i - 1]?.queryId : Undefined when there is no such turn.
PrevQueryId(conv, i) ==
    IF i - 1 \in DOMAIN conv THEN Get(conv[i - 1], "queryId") ELSE Undefined

\* A mutant: a User turn takes the identifier of the turn after it.
EffectiveQueryIdMutNext(conv, i) ==
    LET m == conv[i] IN
    IF m.author = "Server"
    THEN m.queryId
    ELSE LET nxt == IF i + 1 \in DOMAIN conv
                    THEN Get(conv[i + 1], "queryId") ELSE Undefined
         IN  IF Truthy(nxt) THEN nxt ELSE NilQueryId

\* The queryId prop of the turn at index i.
EffectiveQueryId(conv, i) ==
    LET m == conv[i] IN
    IF m.author = "Server"
    THEN m.queryId
    ELSE IF Truthy(PrevQueryId(conv, i)) THEN PrevQueryId(conv, i) ELSE NilQueryId

\* conversation.map((m, i) => <Message .../>): the props this model follows.
Project(conv, loading) ==
    [i \in DOMAIN conv |->
        [author             |-> conv[i].author,
         isLoading          |-> conv[i].author = "Server" /\ Get(conv[i], "isLoading"),
         showInlineFeedback |-> ShowInlineFeedback(conv, loading, i),
         queryId            |-> EffectiveQueryId(conv, i)]]

----------------------------------------------------------------------------
(* The scroll container *)

\* The largest scroll offset of a container whose content is h high.
MaxTop(h) == h - ClientHeight

\* A mutant: the comparison is not strict.
HandleScrollFlagMutLeq(top, h) == top <= h - ClientHeight

\* handleScroll: the value it hands to setUserScrolledUp.
HandleScrollFlag(top, h) == top < h - ClientHeight

\* Element.scrollTo({top, behavior: 'smooth'}): the offset is clamped to the
\* scrollable range; a scroll to the current offset ends any smooth scroll.
ScrollTo(top, cur, h) ==
    LET target == IF top > MaxTop(h) THEN MaxTop(h) ELSE IF top < 0 THEN 0 ELSE top
    IN  IF target = cur THEN <<>> ELSE <<target>>

\* scrollToBottom: the smooth scroll in progress after the call.
ScrollToBottom(att, cur, h, old) ==
    IF att THEN ScrollTo(h, cur, h) ELSE old

\* The follow effect, run when conversation or userScrolledUp changed.
FollowEffect(up, att, cur, h, old) ==
    IF ~up THEN ScrollToBottom(att, cur, h, old) ELSE old

----------------------------------------------------------------------------
(* JavaScript numbers and strings, as far as CodeRenderer uses them *)

\* A number, NaN, undefined and null, as records of one shape.
JsNum(n) == [t |-> "number", v |-> n]
JsNaN == [t |-> "NaN", v |-> 0]
JsUndefined == [t |-> "undefined", v |-> 0]
JsNull == [t |-> "null", v |-> 0]

DigitChars == <<"0", "1", "2", "3", "4", "5", "6", "7", "8", "9">>
Digits == {DigitChars[i] : i \in DOMAIN DigitChars}
LowerChars == {"a", "b", "c", "d", "e", "f", "g", "h", "i", "j", "k", "l", "m", "n", "o", "p", "q", "r", "s", "t", "u", "v", "w", "x", "y", "z"}
UpperChars == {"A", "B", "C", "D", "E", "F", "G", "H", "I", "J", "K", "L", "M", "N", "O", "P", "Q", "R", "S", "T", "U", "V", "W", "X", "Y", "Z"}

\* \w
WordChars == Digits \cup LowerChars \cup UpperChars \cup {"_"}

\* [0-9A-F] under the i flag
HexChars == Digits \cup {"A", "B", "C", "D", "E", "F", "a", "b", "c", "d", "e", "f"}

\* What . does not match; what String.prototype.trim and Number strip.
LineTerminators == {"\n", "\r"}
WhiteSpace == {" ", "\t", "\n", "\r"}

\* The value of a decimal digit.
DigitValue(c) == (CHOOSE i \in DOMAIN DigitChars : DigitChars[i] = c) - 1

\* The value of a sequence of decimal digits.
RECURSIVE DecimalValue(_)
DecimalValue(s) ==
    IF s = <<>> THEN 0
    ELSE 10 * DecimalValue(SubSeq(s, 1, Len(s) - 1)) + DigitValue(s[Len(s)])

\* s without its leading and trailing white space.
RECURSIVE Trim(_)
Trim(s) ==
    IF s = <<>> THEN s
    ELSE IF s[1] \in WhiteSpace THEN Trim(Tail(s))
    ELSE IF s[Len(s)] \in WhiteSpace THEN Trim(SubSeq(s, 1, Len(s) - 1))
    ELSE s

\* Number(s) for a string s: white space is stripped, the empty string is 0, a
\* run of decimal digits is its value, anything else is NaN. (Signs, fractions,
\* exponents, radix prefixes and Infinity, which Number also reads, do not
\* occur in the strings of this model.)
Number(s) ==
    LET t == Trim(s) IN
    IF t = <<>> THEN JsNum(0)
    ELSE IF \A i \in DOMAIN t : t[i] \in Digits THEN JsNum(DecimalValue(t))
    ELSE JsNaN

\* The decimal digits of a natural number.
RECURSIVE NatToString(_)
NatToString(n) ==
    IF n < 10 THEN <<DigitChars[n + 1]>>
    ELSE NatToString(n \div 10) \o <<DigitChars[(n % 10) + 1]>>

\* String(x), as a template literal formats a number.
NumberToString(x) ==
    IF x.t = "number"
    THEN IF x.v < 0 THEN <<"-">> \o NatToString(-x.v) ELSE NatToString(x.v)
    ELSE IF x.t = "NaN" THEN <<"N", "a", "N">>
    ELSE IF x.t = "null" THEN <<"n", "u", "l", "l">>
    ELSE <<"u", "n", "d", "e", "f", "i", "n", "e", "d">>

\* x - 1 : NaN unless x is a number (null does not reach a subtraction here).
MinusOne(x) == IF x.t = "number" THEN JsNum(x.v - 1) ELSE JsNaN

\* a ?? b
Nullish(a, b) == IF a.t \in {"undefined", "null"} THEN b ELSE a

\* The truthiness of a number-or-undefined value: 0, NaN and undefined are falsy.
TruthyNumber(x) == x.t = "number" /\ x.v # 0

\* a[i] for a 0-based index i of an array: undefined outside the array.
At(a, i) == IF i + 1 \in DOMAIN a THEN a[i + 1] ELSE JsUndefined

\* s.split(sep) for a one-character separator.
RECURSIVE Split(_, _)
Split(s, sep) ==
    IF \A i \in DOMAIN s : s[i] # sep THEN <<s>>
    ELSE LET p == CHOOSE i \in DOMAIN s :
                      s[i] = sep /\ \A j \in 1 .. (i - 1) : s[j] # sep
         IN  <<SubSeq(s, 1, p - 1)>> \o Split(SubSeq(s, p + 1, Len(s)), sep)

----------------------------------------------------------------------------
(* The regular expressions of CodeRenderer. A match is <<>> (null) or      *)
(* <<capture>>, the first capture group of the leftmost match.             *)

\* s has the literal lit at position p.
StartsAt(s, p, lit) ==
    /\ p + Len(lit) - 1 <= Len(s)
    /\ SubSeq(s, p, p + Len(lit) - 1) = lit

\* The least element of a non-empty set of integers, and the greatest.
Least(S) == CHOOSE x \in S : \A y \in S : x <= y
Greatest(S) == CHOOSE x \in S : \A y \in S : y <= x

\* /lit(\w+)/.exec(s): lit followed by at least one word character; the
\* capture is the longest run of word characters there.
ExecWord(lit, s) ==
    LET starts == {p \in DOMAIN s :
                      /\ StartsAt(s, p, lit)
                      /\ p + Len(lit) \in DOMAIN s
                      /\ s[p + Len(lit)] \in WordChars}
    IN  IF starts = {} THEN <<>>
        ELSE LET b == Least(starts) + Len(lit)
                 e == Greatest({j \in b .. Len(s) :
                                  \A k \in b .. j : s[k] \in WordChars})
             IN  <<SubSeq(s, b, e)>>

LitLang == <<"l", "a", "n", "g", ":">>
LitLanguage == <<"l", "a", "n", "g", "u", "a", "g", "e", "-">>
LitType == <<"l", "a", "n", "g", "u", "a", "g", "e", "-", "t", "y", "p", "e", ":">>
LitPath == <<"p", "a", "t", "h", ":">>
LitLines == <<"l", "i", "n", "e", "s", ":">>

\* /lang:(\w+)/.exec(className) || /language-(\w+)/.exec(className)
MatchLang(s) ==
    IF ExecWord(LitLang, s) # <<>> THEN ExecWord(LitLang, s)
    ELSE ExecWord(LitLanguage, s)

\* /language-type:(\w+)/.exec(className)
MatchType(s) == ExecWord(LitType, s)

\* The commas that may end the capture of /path:(.+),/ begun at position b:
\* at least one character before the comma, none of them a line terminator.
PathEnds(s, b) ==
    {q \in (b + 1) .. Len(s) :
        /\ s[q] = ","
        /\ \A k \in b .. (q - 1) : s[k] \notin LineTerminators}

\* A mutant: the quantifier is lazy, the capture ends at the first comma.
MatchPathMutLazy(s) ==
    LET starts == {p \in DOMAIN s :
                      StartsAt(s, p, LitPath) /\ PathEnds(s, p + Len(LitPath)) # {}}
    IN  IF starts = {} THEN <<>>
        ELSE LET b == Least(starts) + Len(LitPath)
             IN  <<SubSeq(s, b, Least(PathEnds(s, b)) - 1)>>

\* /path:(.+),/.exec(className): the quantifier is greedy, so the capture runs
\* to the last comma it can reach.
MatchPath(s) ==
    LET starts == {p \in DOMAIN s :
                      StartsAt(s, p, LitPath) /\ PathEnds(s, p + Len(LitPath)) # {}}
    IN  IF starts = {} THEN <<>>
        ELSE LET b == Least(starts) + Len(LitPath)
             IN  <<SubSeq(s, b, Greatest(PathEnds(s, b)) - 1)>>

\* /lines:(.+)/.exec(className): the capture runs to the end of the line.
MatchLines(s) ==
    LET starts == {p \in DOMAIN s :
                      /\ StartsAt(s, p, LitLines)
                      /\ p + Len(LitLines) \in DOMAIN s
                      /\ s[p + Len(LitLines)] \notin LineTerminators}
    IN  IF starts = {} THEN <<>>
        ELSE LET b == Least(starts) + Len(LitLines)
                 e == Greatest({j \in b .. Len(s) :
                                  \A k \in b .. j : s[k] \notin LineTerminators})
             IN  <<SubSeq(s, b, e)>>

\* /(^#[0-9A-F]{6}$)|(^#[0-9A-F]{3}$)/i.test(s)
IsHexColor(s) ==
    /\ Len(s) \in {4, 7}
    /\ s[1] = "#"
    /\ \A i \in 2 .. Len(s) : s[i] \in HexChars

\* s.replace(/\n$/, '')
StripFinalNewline(s) ==
    IF s # <<>> /\ s[Len(s)] = "\n" THEN SubSeq(s, 1, Len(s) - 1) ELSE s

----------------------------------------------------------------------------
(* CodeRenderer: the values it memoizes and the element it returns *)

\* A child node: a string, or a React element.
Text(s) == [kind |-> "string", text |-> s]
Element == [kind |-> "element", text |-> <<>>]

\* typeof children[0] === 'string'
FirstIsString(ch) == ch # <<>> /\ ch[1].kind = "string"

\* children[0] as a condition: undefined and the empty string are falsy.
FirstIsTruthy(ch) == ch # <<>> /\ (ch[1].kind = "string" => ch[1].text # <<>>)

\* code
Code(ch) == IF FirstIsString(ch) THEN StripFinalNewline(ch[1].text) ELSE <<>>

\* lines: matchLines?.[1].split('-').map((l) => Number(l)) || []
Lines(cls) ==
    IF MatchLines(cls) = <<>> THEN <<>>
    ELSE LET parts == Split(MatchLines(cls)[1], "-")
         IN  [i \in DOMAIN parts |-> Number(parts[i])]

\* A mutant: the one-child test is left out.
ColorPreviewMutAnyLength(ch) ==
    /\ FirstIsTruthy(ch)
    /\ FirstIsString(ch)
    /\ IsHexColor(ch[1].text)

\* colorPreview is not null
ColorPreview(ch) ==
    /\ FirstIsTruthy(ch)
    /\ Len(ch) = 1
    /\ FirstIsString(ch)
    /\ IsHexColor(ch[1].text)

\* linesToUse: always a pair
LinesToUse(lines) ==
    <<MinusOne(At(lines, 0)), MinusOne(Nullish(At(lines, 1), At(lines, 0)))>>

\* A mutant: the end of the range is not shifted to a 0-based line.
HandleChipClickMutEnd(lines) ==
    NumberToString(MinusOne(At(lines, 0))) \o <<"_">>
        \o NumberToString(Nullish(At(lines, 1), At(lines, 0)))

\* handleChipClick: the string handed to updateScrollToIndex
HandleChipClick(lines) ==
    NumberToString(MinusOne(At(lines, 0))) \o <<"_">>
        \o NumberToString(MinusOne(Nullish(At(lines, 1), At(lines, 0))))

\* startLine of CodeWithBreadcrumbs: lines[0] ? lines[0] - 1 : null
StartLine(lines) ==
    IF TruthyNumber(At(lines, 0)) THEN MinusOne(At(lines, 0)) ELSE JsNull

\* match?.[1] || ''
CaptureOrEmpty(m) == IF m = <<>> THEN <<>> ELSE m[1]

Quoted == <<"Q", "u", "o", "t", "e", "d">>

\* A mutant: hideCode is read without looking at the type tag.
StrategyMutHide(cls, ch, inl, hide) ==
    IF ~inl /\ (MatchType(cls) # <<>> \/ MatchLang(cls) # <<>>) /\ FirstIsString(ch)
    THEN IF hide THEN "FileChip"
         ELSE IF CaptureOrEmpty(MatchType(cls)) = Quoted THEN "SourceQuote"
         ELSE "SyntaxBlock"
    ELSE IF ColorPreview(ch) THEN "ColorSwatch"
    ELSE "PlainCode"

\* The component the render returns: FileChip, CodeWithBreadcrumbs (SourceQuote),
\* NewCode (SyntaxBlock), the colour preview beside <code> (ColorSwatch), or
\* <code> alone (PlainCode). A capture of \w+ is never empty, so match?.[1] is
\* truthy exactly when there is a match.
Strategy(cls, ch, inl, hide) ==
    IF ~inl /\ (MatchType(cls) # <<>> \/ MatchLang(cls) # <<>>) /\ FirstIsString(ch)
    THEN IF CaptureOrEmpty(MatchType(cls)) = Quoted
         THEN IF hide THEN "FileChip" ELSE "SourceQuote"
         ELSE "SyntaxBlock"
    ELSE IF ColorPreview(ch) THEN "ColorSwatch"
    ELSE "PlainCode"

\* A prop the returned component is not given.
NoString == <<>>
NoLines == <<>>

\* The returned element with the props this model follows.
RenderElement(cls, ch, inl, hide) ==
    LET strategy == Strategy(cls, ch, inl, hide) IN
    [strategy  |-> strategy,
     filePath  |-> IF strategy \in {"FileChip", "SourceQuote"}
                   THEN CaptureOrEmpty(MatchPath(cls)) ELSE NoString,
     lines     |-> IF strategy = "FileChip" THEN LinesToUse(Lines(cls)) ELSE NoLines,
     startLine |-> IF strategy = "SourceQuote" THEN StartLine(Lines(cls))
                   ELSE JsUndefined,
     language  |-> IF strategy \in {"SourceQuote", "SyntaxBlock"}
                   THEN CaptureOrEmpty(MatchLang(cls)) ELSE NoString,
     code      |-> IF strategy \in {"SourceQuote", "SyntaxBlock"}
                   THEN Code(ch) ELSE NoString]

\* The element before the first render.
NotRendered ==
    [strategy |-> "NotRendered", filePath |-> NoString, lines |-> NoLines,
     startLine |-> JsUndefined, language |-> NoString, code |-> NoString]

----------------------------------------------------------------------------
(* CodeRenderer: the inputs of the model *)

\* The most tokens in a class string.
MaxTokens == 3

\* The tokens class strings are made of, joined by single spaces.
ClassTokens ==
    <<<<"l", "a", "n", "g", ":", "r", "u", "s", "t">>,
      <<"l", "a", "n", "g", "u", "a", "g", "e", "-", "t", "y", "p", "e", ":", "Q", "u", "o", "t", "e", "d">>,
      <<"p", "a", "t", "h", ":", "a", ".", "p", "y", ",">>,
      <<"p", "a", "t", "h", ":", "b">>,
      <<"l", "i", "n", "e", "s", ":", "5">>,
      <<"l", "i", "n", "e", "s", ":", "1", "0", "-", "2", "0">>,
      <<"l", "i", "n", "e", "s", ":", "x">>,
      <<",">>>>

RECURSIVE JoinTokens(_)
JoinTokens(ix) ==
    IF ix = <<>> THEN <<>>
    ELSE IF Len(ix) = 1 THEN ClassTokens[ix[1]]
    ELSE ClassTokens[ix[1]] \o <<" ">> \o JoinTokens(Tail(ix))

ClassNames ==
    {JoinTokens(ix) :
        ix \in UNION {[1 .. n -> DOMAIN ClassTokens] : n \in 0 .. MaxTokens}}

ChildrenInputs ==
    {<<>>,
     <<Text(<<"a", "\n">>)>>,
     <<Element>>,
     <<Text(<<"a">>), Element>>,
     <<Text(<<"#", "F", "F", "F">>)>>,
     <<Text(<<"#", "F", "F", "F">>), Element>>,
     <<Text(<<"#", "G", "G", "G", "G", "G", "G">>)>>,
     <<Text(<<"#", "a", "1", "B", "2", "c", "3">>)>>,
     <<Text(<<" ", "#", "F", "F", "F">>)>>,
     <<Text(<<"#", "F", "F", "F", "F">>)>>}

----------------------------------------------------------------------------
(* CodeRenderer: the state after construction, and its steps *)

\* No code element: the state of these variables while Conversation is followed.
NoCodeRenderer ==
    /\ className = <<>>
    /\ children = <<>>
    /\ inline = FALSE
    /\ hideCode = FALSE
    /\ element = NotRendered
    /\ scrollToIndex = <<>>

InitCodeRenderer ==
    /\ className \in ClassNames
    /\ children \in ChildrenInputs
    /\ inline \in BOOLEAN
    /\ hideCode \in BOOLEAN
    /\ element = NotRendered
    /\ scrollToIndex = <<>>

\* The render of the element with its props.
Render ==
    /\ element = NotRendered
    /\ element' = RenderElement(className, children, inline, hideCode)
    /\ UNCHANGED <<className, children, inline, hideCode, scrollToIndex, convVars>>

\* The user clicks the FileChip: onClick is handleChipClick.
ChipClick ==
    /\ element.strategy = "FileChip"
    /\ scrollToIndex = <<>>
    /\ scrollToIndex' = <<HandleChipClick(Lines(className))>>
    /\ UNCHANGED <<className, children, inline, hideCode, element, convVars>>

----------------------------------------------------------------------------
(* Conversation: the state after construction, and its handlers *)

InitConversation ==
    /\ conversation = <<>>
    /\ isLoading = FALSE
    /\ attached = FALSE
    /\ userScrolledUp = FALSE
    /\ scrollTop = 0
    /\ scrollHeight \in ClientHeight .. (ClientHeight + MaxGrow)
    /\ anim = <<>>
    /\ rendered = <<>>
    /\ lastAct = "Init"
    /\ effectCalled = FALSE
    /\ userLeft = FALSE

\* The first commit: the ref is attached, the turns are rendered, the follow
\* effect runs.
Mount ==
    /\ lastAct = "Init"
    /\ attached' = TRUE
    /\ rendered' = Project(conversation, isLoading)
    /\ anim' = FollowEffect(userScrolledUp, TRUE, scrollTop, scrollHeight, anim)
    /\ effectCalled' = ~userScrolledUp
    /\ lastAct' = "Mount"
    /\ UNCHANGED <<conversation, isLoading, userScrolledUp, scrollTop,
                   scrollHeight, userLeft, decVars>>

\* The transcripts that may replace conv: a turn appended, or the last turn
\* replaced (a streamed answer).
NextTranscripts(conv) ==
    {Append(conv, t) : t \in IF Len(conv) < MaxTurns THEN Turns ELSE {}}
    \cup {[conv EXCEPT ![Len(conv)] = t] : t \in IF Len(conv) > 0 THEN Turns ELSE {}}

\* The parent passes a new conversation; layout adds d to the content's height;
\* the follow effect runs, conversation having changed.
TranscriptChange ==
    /\ attached
    /\ \E c \in NextTranscripts(conversation), d \in 0 .. MaxGrow :
        /\ scrollHeight + d <= MaxScrollHeight
        /\ conversation' = c
        /\ scrollHeight' = scrollHeight + d
        /\ rendered' = Project(c, isLoading)
        /\ anim' = FollowEffect(userScrolledUp, attached, scrollTop,
                                scrollHeight + d, anim)
    /\ effectCalled' = ~userScrolledUp
    /\ lastAct' = "TranscriptChange"
    /\ UNCHANGED <<isLoading, attached, userScrolledUp, scrollTop, userLeft,
                   decVars>>

\* The parent passes a new isLoading: the turns are rendered again; no
\* dependency of the follow effect changed, so it does not run.
LoadingChange ==
    /\ attached
    /\ isLoading' = ~isLoading
    /\ rendered' = Project(conversation, ~isLoading)
    /\ effectCalled' = FALSE
    /\ lastAct' = "LoadingChange"
    /\ UNCHANGED <<conversation, attached, userScrolledUp, scrollTop,
                   scrollHeight, anim, userLeft, decVars>>

\* A scroll event at offset top with the smooth scroll left at rest: handleScroll
\* sets the flag, and the follow effect runs if the flag changed.
ScrollEvent(top, rest) ==
    LET up == HandleScrollFlag(top, scrollHeight) IN
    /\ scrollTop' = top
    /\ userScrolledUp' = up
    /\ anim' = IF up # userScrolledUp
               THEN FollowEffect(up, attached, top, scrollHeight, rest)
               ELSE rest
    /\ effectCalled' = (up # userScrolledUp /\ ~up)

\* One frame of the smooth scroll: the offset moves towards the target and the
\* container's scroll event fires.
AnimFrame ==
    /\ attached
    /\ anim # <<>>
    /\ \E k \in 1 .. (anim[1] - scrollTop) :
        ScrollEvent(scrollTop + k,
                    IF scrollTop + k = anim[1] THEN <<>> ELSE anim)
    /\ lastAct' = "AnimFrame"
    /\ UNCHANGED <<conversation, isLoading, attached, scrollHeight, rendered,
                   userLeft, decVars>>

\* The user scrolls the container to another offset, which ends a smooth
\* scroll in progress; the container's scroll event fires.
UserScroll ==
    /\ attached
    /\ \E pos \in 0 .. MaxTop(scrollHeight) :
        /\ pos # scrollTop
        /\ ScrollEvent(pos, <<>>)
        /\ userLeft' = (userLeft \/ pos < MaxTop(scrollHeight))
    /\ lastAct' = "UserScroll"
    /\ UNCHANGED <<conversation, isLoading, attached, scrollHeight, rendered,
                   decVars>>

\* A <Message> calls the scrollToBottom prop it was given.
ChildScrollToBottom ==
    /\ lastAct # "Init"
    /\ anim' = ScrollToBottom(attached, scrollTop, scrollHeight, anim)
    /\ effectCalled' = FALSE
    /\ lastAct' = "ChildScrollToBottom"
    /\ UNCHANGED <<conversation, isLoading, attached, userScrolledUp, scrollTop,
                   scrollHeight, rendered, userLeft, decVars>>

\* The component unmounts: React sets the ref to null; the element, its smooth
\* scroll and the component's state are gone. What remains is the scrollToBottom
\* closure a child may still hold.
Unmount ==
    /\ attached
    /\ attached' = FALSE
    /\ anim' = <<>>
    /\ conversation' = <<>>
    /\ isLoading' = FALSE
    /\ rendered' = <<>>
    /\ userScrolledUp' = FALSE
    /\ scrollTop' = 0
    /\ scrollHeight' = ClientHeight
    /\ effectCalled' = FALSE
    /\ userLeft' = FALSE
    /\ lastAct' = "Unmount"
    /\ UNCHANGED decVars

\* The Conversation component on its own: no code element is rendered.
Init == InitConversation /\ NoCodeRenderer

Next ==
    \/ Mount
    \/ TranscriptChange
    \/ LoadingChange
    \/ AnimFrame
    \/ UserScroll
    \/ ChildScrollToBottom
    \/ Unmount

Spec == Init /\ [][Next]_vars

\* No Conversation: the state of its variables while CodeRenderer is followed.
NoConversation ==
    /\ conversation = <<>>
    /\ isLoading = FALSE
    /\ attached = FALSE
    /\ userScrolledUp = FALSE
    /\ scrollTop = 0
    /\ scrollHeight = ClientHeight
    /\ anim = <<>>
    /\ rendered = <<>>
    /\ lastAct = "Init"
    /\ effectCalled = FALSE
    /\ userLeft = FALSE

\* The CodeRenderer component on its own, over every input of the model.
InitDecoder == InitCodeRenderer /\ NoConversation

NextDecoder ==
    \/ Render
    \/ ChipClick

SpecDecoder == InitDecoder /\ [][NextDecoder]_vars

----------------------------------------------------------------------------
(* Properties of Conversation, checked under Spec *)

ScrollEvents == {"AnimFrame", "UserScroll"}

\* C1. Follow guarantee: as long as the user has not scrolled the container away
\* from the bottom, every transcript change makes the follow effect call
\* scrollToBottom, and whenever no smooth scroll is in progress the viewport
\* rests at the maximum scroll offset.
C1_FollowGuarantee ==
    /\ (lastAct = "TranscriptChange" /\ ~userLeft) => effectCalled
    /\ (attached /\ ~userLeft /\ anim = <<>>) => scrollTop = MaxTop(scrollHeight)

\* C2. Follow flag: after a scroll event on the attached container the flag is
\* true exactly when scrollTop < scrollHeight - clientHeight (at the bottom it
\* is false), and on the attached container only a scroll event changes it, so
\* it keeps its value across renders and transcript changes.
C2_FollowFlag ==
    /\ [](lastAct \in ScrollEvents =>
            (userScrolledUp <=> scrollTop < scrollHeight - ClientHeight))
    /\ [][(attached' /\ userScrolledUp' # userScrolledUp)
            => lastAct' \in ScrollEvents]_vars

\* C2 witness: the user scrolled up, and the flag is still true after a
\* transcript change.
C2_Witness ==
    /\ lastAct = "TranscriptChange"
    /\ userLeft
    /\ userScrolledUp
    /\ scrollTop < scrollHeight - ClientHeight

\* C3. effectiveQueryId: a Server turn is rendered with its own query identifier;
\* a User turn with the identifier of the turn before it when there is one and
\* it is Server-authored, and with the nil identifier otherwise.
C3_EffectiveQueryId ==
    attached =>
        /\ DOMAIN rendered = DOMAIN conversation
        /\ \A i \in DOMAIN conversation :
            rendered[i].queryId =
                IF conversation[i].author = "Server"
                THEN conversation[i].queryId
                ELSE IF i > 1 /\ conversation[i - 1].author = "Server"
                     THEN conversation[i - 1].queryId
                     ELSE NilQueryId

\* C3 witness: a User turn after a Server turn is rendered with that turn's
\* identifier, and the first turn, a Server turn, with its own.
C3_Witness ==
    /\ attached
    /\ Len(conversation) = 2
    /\ conversation[1].author = "Server"
    /\ conversation[2].author = "User"
    /\ rendered[2].queryId = conversation[1].queryId
    /\ rendered[2].queryId # NilQueryId

\* C4. showInlineFeedback: a turn shows inline feedback exactly when it is the
\* last turn, Server-authored, not loading, not loaded from history, and the
\* transcript as a whole is not loading; so at most one turn shows it.
C4_ShowInlineFeedback ==
    attached =>
        /\ DOMAIN rendered = DOMAIN conversation
        /\ \A i \in DOMAIN conversation :
            rendered[i].showInlineFeedback <=>
                /\ i = Len(conversation)
                /\ conversation[i].author = "Server"
                /\ ~conversation[i].isLoading
                /\ ~conversation[i].isFromHistory
                /\ ~isLoading
        /\ Cardinality({i \in DOMAIN rendered : rendered[i].showInlineFeedback}) <= 1

\* C4 witness: two finished Server turns, neither from history; only the last
\* shows inline feedback.
C4_Witness ==
    /\ attached
    /\ ~isLoading
    /\ Len(conversation) = 2
    /\ \A i \in {1, 2} :
        /\ conversation[i].author = "Server"
        /\ ~conversation[i].isLoading
        /\ ~conversation[i].isFromHistory
    /\ ~rendered[1].showInlineFeedback
    /\ rendered[2].showInlineFeedback

\* C10. The view does not fight the user: while userScrolledUp is true, neither
\* a transcript change nor a child's scrollToBottom request starts a scroll.
C10_DoesNotFightUser ==
    [][(userScrolledUp /\ lastAct' \in {"TranscriptChange", "ChildScrollToBottom"})
        => anim' = anim]_vars

----------------------------------------------------------------------------
(* Properties of CodeRenderer, checked under SpecDecoder *)

RichStrategies == {"FileChip", "SourceQuote", "SyntaxBlock"}

\* A type tag or a language tag is present in the class string.
Tagged == MatchType(className) # <<>> \/ MatchLang(className) # <<>>

\* The type tag is Quoted.
TypeQuoted == MatchType(className) = <<Quoted>>

\* Within the rich branch: FileChip iff Quoted and hideCode, SourceQuote iff
\* Quoted and not hideCode, SyntaxBlock otherwise.
RichChoice ==
    /\ element.strategy = "FileChip" <=> (TypeQuoted /\ hideCode)
    /\ element.strategy = "SourceQuote" <=> (TypeQuoted /\ ~hideCode)
    /\ element.strategy = "SyntaxBlock" <=> ~TypeQuoted

\* C5, as claimed. A rich strategy is selected exactly when the element is not
\* inline, a tag is present and the content is exactly one plain-text child;
\* within the branch the strategy follows the type tag and hideCode.
C5_Original ==
    element # NotRendered =>
        /\ element.strategy \in RichStrategies <=>
              /\ ~inline
              /\ Tagged
              /\ Len(children) = 1
              /\ children[1].kind = "string"
        /\ element.strategy \in RichStrategies => RichChoice

\* C5, amended. A rich strategy is selected exactly when the element is not
\* inline, a tag is present and the first child is plain text, whatever follows
\* it; within the branch the strategy follows the type tag and hideCode, and
\* hideCode has no effect without the Quoted type tag.
C5_Dispatch ==
    element # NotRendered =>
        /\ element.strategy \in RichStrategies <=>
              /\ ~inline
              /\ Tagged
              /\ Len(children) >= 1
              /\ children[1].kind = "string"
        /\ element.strategy \in RichStrategies => RichChoice

\* C5 witness: a text child followed by an element is rendered as a FileChip.
C5_Witness ==
    /\ element.strategy = "FileChip"
    /\ hideCode
    /\ Len(children) = 2
    /\ children[1].kind = "string"
    /\ children[2].kind = "element"

\* The position after the first "lines:" of the class string, 0 if none.
LinesValueStart ==
    LET starts == {p \in DOMAIN className : StartsAt(className, p, LitLines)}
    IN  IF starts = {} THEN 0 ELSE Least(starts) + Len(LitLines)

\* The token after the first "lines:": the characters up to the next space.
LinesToken ==
    LET b == LinesValueStart
        stops == {q \in b .. Len(className) : className[q] = " "}
    IN  IF b = 0 THEN <<>>
        ELSE SubSeq(className, b,
                    IF stops = {} THEN Len(className) ELSE Least(stops) - 1)

\* The first "lines:" tag's token is the last thing in the class string.
LinesTokenIsLast ==
    /\ LinesValueStart # 0
    /\ \A q \in LinesValueStart .. Len(className) : className[q] # " "

IsDigits(s) == s # <<>> /\ \A i \in DOMAIN s : s[i] \in Digits

\* The token is <start> or <start>-<end>, both numbers from 1 up.
LinesTokenNumeric ==
    LET parts == Split(LinesToken, "-") IN
    /\ Len(parts) \in {1, 2}
    /\ \A i \in DOMAIN parts : IsDigits(parts[i]) /\ DecimalValue(parts[i]) >= 1

\* The 1-based bounds the token states.
TokenStart == DecimalValue(Split(LinesToken, "-")[1])
TokenEnd ==
    LET parts == Split(LinesToken, "-") IN
    IF Len(parts) = 2 THEN DecimalValue(parts[2]) ELSE TokenStart

\* The range and the click string the lines tag is claimed to decode to.
DecodesLinesToken ==
    /\ element.strategy = "FileChip" =>
          element.lines = <<JsNum(TokenStart - 1), JsNum(TokenEnd - 1)>>
    /\ scrollToIndex # <<>> =>
          scrollToIndex[1] =
              NatToString(TokenStart - 1) \o <<"_">> \o NatToString(TokenEnd - 1)

\* C6, as claimed. Every class string containing lines:<start> or
\* lines:<start>-<end> decodes to [start-1, end-1], the end defaulting to the
\* start, and the FileChip click emits "<start-1>_<end-1>".
C6_Original == LinesTokenNumeric => DecodesLinesToken

\* C6, amended. The same, for the class strings in which the lines tag comes
\* last: its value runs to the end of the class string.
C6_LinesDecoding == (LinesTokenNumeric /\ LinesTokenIsLast) => DecodesLinesToken

\* C6 witness: the FileChip of "... lines:10-20" was clicked and emitted "9_19".
C6_Witness ==
    /\ element.strategy = "FileChip"
    /\ LinesTokenNumeric
    /\ LinesTokenIsLast
    /\ TokenStart = 10
    /\ TokenEnd = 20
    /\ element.lines = <<JsNum(9), JsNum(19)>>
    /\ scrollToIndex = <<<<"9", "_", "1", "9">>>>

\* s holds "NaN".
HoldsNaN(s) == \E p \in DOMAIN s : StartsAt(s, p, NumberToString(JsNaN))

\* C7. Numeric-decode failure: a FileChip of a class string with no lines tag
\* gets no range, and no NaN appears in the range passed to FileChip, in the
\* string a FileChip click emits, or in the start line passed to SourceQuote.
C7_NoNaN ==
    /\ (element.strategy = "FileChip" /\ LinesValueStart = 0) =>
          element.lines = NoLines
    /\ \A i \in DOMAIN element.lines : element.lines[i].t # "NaN"
    /\ \A i \in DOMAIN scrollToIndex : ~HoldsNaN(scrollToIndex[i])
    /\ element.startLine.t # "NaN"

\* The text is '#' and then exactly 3 or exactly 6 hexadecimal digits.
HexLiteral(s) ==
    /\ Len(s) = 4 \/ Len(s) = 7
    /\ s[1] = "#"
    /\ \A i \in 2 .. Len(s) :
        s[i] \in {"0", "1", "2", "3", "4", "5", "6", "7", "8", "9",
                  "a", "b", "c", "d", "e", "f", "A", "B", "C", "D", "E", "F"}

\* C8. ColorSwatch dispatch: when no rich strategy applies, the strategy is
\* ColorSwatch exactly when the content is one child, a text, that is a 3- or
\* 6-digit hex colour literal, and PlainCode otherwise; "#<<"#", "G", "G", "G", "G", "G", "G">><<"#", "G", "G", "G", "G", "G", "G">>" is PlainCode.
C8_ColorSwatch ==
    (element # NotRendered /\ element.strategy \notin RichStrategies) =>
        /\ element.strategy = "ColorSwatch" <=>
              /\ Len(children) = 1
              /\ children[1].kind = "string"
              /\ HexLiteral(children[1].text)
        /\ element.strategy \in {"ColorSwatch", "PlainCode"}
        /\ children = <<Text(<<"#", "G", "G", "G", "G", "G", "G">>)>> => element.strategy = "PlainCode"

\* C8 witness: the single child "#FFF" is rendered as a ColorSwatch.
C8_Witness ==
    /\ element.strategy = "ColorSwatch"
    /\ children = <<Text(<<"#", "F", "F", "F">>)>>

\* The position after the first "path:" of the class string, 0 if none.
PathValueStart ==
    LET starts == {p \in DOMAIN className : StartsAt(className, p, LitPath)}
    IN  IF starts = {} THEN 0 ELSE Least(starts) + Len(LitPath)

\* The commas after the first "path:".
CommasAfterPath ==
    IF PathValueStart = 0 THEN {}
    ELSE {q \in PathValueStart .. Len(className) : className[q] = ","}

\* The path handed to FileChip or SourceQuote is the value from the first
\* "path:" to the comma at q, or the empty string when there is no such comma.
PathEndsAt(q) ==
    element.strategy \in {"FileChip", "SourceQuote"} =>
        element.filePath =
            IF q = 0 THEN <<>> ELSE SubSeq(className, PathValueStart, q - 1)

\* C9, as claimed. The decoded path is the value between path: and the comma
\* that ends it, also when further commas occur later in the class string;
\* without a comma the path is absent and the components get the empty string.
C9_Original ==
    PathEndsAt(IF CommasAfterPath = {} THEN 0 ELSE Least(CommasAfterPath))

\* C9, amended. The decoded path is the value between path: and the last comma
\* of the class string after it; without a comma the path is absent and the
\* components get the empty string.
C9_PathDecoding ==
    PathEndsAt(IF CommasAfterPath = {} THEN 0 ELSE Greatest(CommasAfterPath))

\* C9 witness: a SourceQuote of a class string with two commas after path:,
\* whose path runs past the first of them.
C9_Witness ==
    /\ element.strategy = "SourceQuote"
    /\ Cardinality(CommasAfterPath) = 2
    /\ Len(element.filePath) > Least(CommasAfterPath) - PathValueStart

====
